---- MODULE Spec2Model ----
(***************************************************************************)
(* Safety-Route-Navigator: the incident lifecycle simulation               *)
(* (generate_crime_data.py) and the request-time scorers (app.py).         *)
(*                                                                         *)
(* Units.  Time is counted in units of UPDATE_INTERVAL_SECONDS (300 s);    *)
(* time 0 is a midnight.  Latitudes are integers in units of 1e-4 degree   *)
(* (the precision generate_new_incident rounds to) and every point lies on *)
(* one meridian, where the haversine distance is R * |dlat|.  Distances    *)
(* are centimetres.  dynamic_risk_score and hotspot_density are held in    *)
(* hundredths, safety_influence in 1e-5, route scores in hundredths.       *)
(***************************************************************************)
EXTENDS Integers, Sequences, FiniteSets, TLC

VARIABLES
    now,               \* the wall clock, datetime.now()
    history_csv,       \* crime_history.csv: [exists, rows]
    realtime_csv,      \* crime_realtime.csv: the rows written so far
    pc,                \* run_simulation: the step it performs next
    incidents,         \* run_simulation: incidents
    pruned_incidents,  \* run_simulation: pruned_incidents
    current_time,      \* run_simulation: current_time
    start_time,        \* run_simulation: start_time
    duration_minutes,  \* run_simulation: its parameter (0: None)
    to_write,          \* save_to_csv: sorted rows not yet written
    ticks_done,        \* number of completed save_to_csv calls of the loop
    published,         \* the file contents left by each completed save_to_csv
    sim_count,         \* number of incidents generated so far
    hash_seed,         \* the app process's string hash seed
    crime_df,          \* app.py _CRIME_DF: [loaded, rows]
    req,               \* the last scoring request: whether there was one, ticks_done
                       \* and the lifecycle's phase when it was served, the rows
                       \* it scored, the endpoint and what it was given
    response           \* the last get_triple_routes response

vars == <<now, history_csv, realtime_csv, pc, incidents, pruned_incidents,
          current_time, start_time, duration_minutes, to_write, ticks_done,
          published, sim_count, hash_seed, crime_df, req, response>>

----------------------------------------------------------------------------
(* Bounds of the model *)

MaxTicks == 3
MaxSim == 3
MaxRoutes == 2
\* how many update intervals after the tick's time a recompute is still made
MaxLate == 2

----------------------------------------------------------------------------
(* Program constants *)

UPDATE_INTERVAL_SECONDS == 300
MAX_ACTIVE_INCIDENTS == 100

DangerTypes == {"Assault", "Robbery", "Harassment", "Poor Lighting",
                "Isolated Area", "Drug Activity"}
SafetyTypes == {"Police Station", "CCTV Zone"}

CrimeBaseSeverity(ctype) ==
    CASE ctype = "Assault" -> 8
      [] ctype = "Robbery" -> 7
      [] ctype = "Harassment" -> 6
      [] ctype = "Poor Lighting" -> 4
      [] ctype = "Isolated Area" -> 5
      [] ctype = "Drug Activity" -> 7
      [] ctype = "Police Station" -> -10
      [] ctype = "CCTV Zone" -> -5
      [] OTHER -> 5

\* decay_rate in hundredths per hour; 0.1 for a type not in CRIME_TYPES
CrimeDecayRate(ctype) ==
    CASE ctype = "Assault" -> 10
      [] ctype = "Robbery" -> 15
      [] ctype = "Harassment" -> 20
      [] ctype = "Poor Lighting" -> 5
      [] ctype = "Isolated Area" -> 5
      [] ctype = "Drug Activity" -> 10
      [] ctype = "Police Station" -> 0
      [] ctype = "CCTV Zone" -> 0
      [] OTHER -> 10

----------------------------------------------------------------------------
(* Arithmetic helpers *)

Abs(x) == IF x < 0 THEN -x ELSE x
Min(a, b) == IF a < b THEN a ELSE b
Max(a, b) == IF a > b THEN a ELSE b

SecondsOf(units) == units * UPDATE_INTERVAL_SECONDS
HourOf(t) == (SecondsOf(t) \div 3600) % 24

\* haversine distance of two latitudes on one meridian, in centimetres:
\* 6371 km * radians(1e-4 degree) = 11.11949 m per unit
calculate_distance(lat1, lat2) ==
    LET d == Abs(lat2 - lat1) IN d * 1111 + (d * 949) \div 1000

\* exp(-k) in 1e-4, k a natural number
ExpNegInt(k) ==
    CASE k = 0 -> 10000 [] k = 1 -> 3679 [] k = 2 -> 1353 [] k = 3 -> 498
      [] k = 4 -> 183 [] k = 5 -> 67 [] k = 6 -> 25 [] k = 7 -> 9
      [] k = 8 -> 3 [] k = 9 -> 1 [] OTHER -> 0

\* exp(-f/10000) in 1e-4 for 0 <= f < 10000, by the power series
ExpNegFrac(f) ==
    LET t1 == f
        t2 == (t1 * f) \div 20000
        t3 == (t2 * f) \div 30000
        t4 == (t3 * f) \div 40000
        t5 == (t4 * f) \div 50000
        t6 == (t5 * f) \div 60000
        t7 == (t6 * f) \div 70000
    IN 10000 - t1 + t2 - t3 + t4 - t5 + t6 - t7

\* math.exp(-x), x >= 0 in 1e-4, result in 1e-4
ExpNeg(x) == (ExpNegInt(x \div 10000) * ExpNegFrac(x % 10000) + 5000) \div 10000

----------------------------------------------------------------------------
(* generate_crime_data.py: the pure functions *)

NightWeighted == {"Assault", "Robbery", "Poor Lighting", "Isolated Area"}

\* get_time_weight, in tenths
get_time_weight(incident_type, t) ==
    LET hour == HourOf(t) IN
    IF 20 <= hour \/ hour <= 4
    THEN IF incident_type \in NightWeighted THEN 13 ELSE 10
    ELSE IF 10 <= hour /\ hour <= 18
         THEN IF incident_type = "Harassment" THEN 11 ELSE 10
         ELSE 10

\* calculate_hotspot_density, in hundredths; wall is datetime.now()
calculate_hotspot_density(target_incident, all_incidents, wall) ==
    IF target_incident.base_severity < 0 THEN 100
    ELSE LET Close(inc) ==
                 /\ inc.id # target_incident.id
                 /\ inc.base_severity > 0
                 /\ calculate_distance(target_incident.latitude, inc.latitude) <= 50000
                 /\ SecondsOf(wall - inc.timestamp) < 24 * 3600
             close_incidents == Len(SelectSeq(all_incidents, Close))
         IN Min(100 + close_incidents * 15, 200)

\* the loop of calculate_safety_influence over the incidents lo..hi: what the
\* safety nodes within 1 km add, in 1e-5; the range is summed by halves
RECURSIVE InfluenceSum(_, _, _, _)
InfluenceSum(target_incident, all_incidents, lo, hi) ==
    IF lo > hi THEN 0
    ELSE IF lo = hi
    THEN LET inc == all_incidents[lo]
             dist == calculate_distance(target_incident.latitude, inc.latitude)
         IN IF inc.base_severity < 0 /\ dist <= 100000
            THEN Abs(inc.base_severity) * (100000 - dist)
            ELSE 0
    ELSE LET mid == (lo + hi) \div 2
         IN InfluenceSum(target_incident, all_incidents, lo, mid)
            + InfluenceSum(target_incident, all_incidents, mid + 1, hi)

\* calculate_safety_influence, in 1e-5
calculate_safety_influence(target_incident, all_incidents) ==
    IF target_incident.base_severity < 0 THEN 0
    ELSE InfluenceSum(target_incident, all_incidents, 1, Len(all_incidents))

\* math.exp(-time_decay_factor * hours_elapsed), in 1e-4
RecencyFactor(decay, elapsed_units) ==
    LET x == (decay * SecondsOf(elapsed_units)) \div 36
    IN IF x >= 0 THEN ExpNeg(x) ELSE 100000000 \div Max(ExpNeg(-x), 1)

\* mutant: the score is floored and not capped
UpdateOneUncapped(inc, all_incidents, t, wall) ==
    IF inc.base_severity < 0
    THEN [inc EXCEPT !.dynamic_risk_score = inc.base_severity * 100,
                     !.last_updated = t]
    ELSE LET density == calculate_hotspot_density(inc, all_incidents, wall)
             influence == calculate_safety_influence(inc, all_incidents)
             raw_score == inc.base_severity * get_time_weight(inc.type, t)
                          * RecencyFactor(inc.time_decay_factor, t - inc.timestamp)
                          * density - influence * 100
         IN [inc EXCEPT !.hotspot_density = density,
                        !.safety_influence = influence,
                        !.dynamic_risk_score = (Max(0, raw_score) + 50000) \div 100000,
                        !.last_updated = t]

\* one iteration of the loop of update_dynamic_scores.  The loop writes the
\* dicts in place; the fields it reads of the other incidents (id,
\* base_severity, latitude, timestamp) are never written, so every iteration
\* sees the same all_incidents.
UpdateOne(inc, all_incidents, t, wall) ==
    IF inc.base_severity < 0
    THEN [inc EXCEPT !.dynamic_risk_score = inc.base_severity * 100,
                     !.last_updated = t]
    ELSE LET recency_factor == RecencyFactor(inc.time_decay_factor, t - inc.timestamp)
             time_weight == get_time_weight(inc.type, t)
             density == calculate_hotspot_density(inc, all_incidents, wall)
             influence == calculate_safety_influence(inc, all_incidents)
             \* in 1e-7
             raw_score == inc.base_severity * time_weight * recency_factor * density
                          - influence * 100
             clamped == Max(0, Min(100000000, raw_score))
         IN [inc EXCEPT !.hotspot_density = density,
                        !.safety_influence = influence,
                        !.dynamic_risk_score = (clamped + 50000) \div 100000,
                        !.last_updated = t]

\* mutant: density and influence are taken against the set the previous
\* cycle left, before this cycle's prune and injection
update_scores_against_previous(incs, t, wall) ==
    [i \in 1..Len(incs) |-> UpdateOne(incs[i], incidents, t, wall)]

update_dynamic_scores(incs, t, wall) ==
    [i \in 1..Len(incs) |-> UpdateOne(incs[i], incs, t, wall)]

\* mutant: a loaded incident starts without a score, pending the recompute
load_base_data_unscored(file, wall) ==
    IF ~file.exists THEN <<>>
    ELSE [i \in 1..Len(file.rows) |->
            LET row == file.rows[i] IN
            [id |-> row.id,
             type |-> row.type,
             latitude |-> row.latitude,
             base_severity |-> row.severity,
             dynamic_risk_score |-> 0,
             timestamp |-> row.timestamp,
             last_updated |-> wall,
             time_decay_factor |-> CrimeDecayRate(row.type),
             hotspot_density |-> 100,
             safety_influence |-> 0,
             description |-> row.description]]

\* load_base_data of a file [exists, rows]; the rows of the model carry a
\* well-formed timestamp, an id and a severity
load_base_data(file, wall) ==
    IF ~file.exists THEN <<>>
    ELSE [i \in 1..Len(file.rows) |->
            LET row == file.rows[i] IN
            [id |-> row.id,
             type |-> row.type,
             latitude |-> row.latitude,
             base_severity |-> row.severity,
             dynamic_risk_score |-> row.severity * 100,
             timestamp |-> row.timestamp,
             last_updated |-> wall,
             time_decay_factor |-> CrimeDecayRate(row.type),
             hotspot_density |-> 100,
             safety_influence |-> 0,
             description |-> row.description]]

\* mutant: safety nodes are not exempt
KeepOnPruneNoAssets(inc, t) ==
    \/ inc.dynamic_risk_score >= 50
    \/ SecondsOf(t - inc.timestamp) < 3600

\* mutant: an incident exactly one hour old still counts as recent
KeepOnPruneInclusive(inc, t) ==
    \/ inc.dynamic_risk_score >= 50
    \/ inc.base_severity < 0
    \/ SecondsOf(t - inc.timestamp) <= 3600

\* the filter of run_simulation's step 1
KeepOnPrune(inc, t) ==
    \/ inc.dynamic_risk_score >= 50
    \/ inc.base_severity < 0
    \/ SecondsOf(t - inc.timestamp) < 3600

PruneIncidents(incs, t) ==
    LET Keep(inc) == KeepOnPrune(inc, t) IN SelectSeq(incs, Keep)

\* generate_new_incident under one outcome of the random source:
\* draw = [ctype, near (random() < 0.7), anchor (which crime incident),
\*         lat_offset, box_lat, suffix]
generate_new_incident(existing_incidents, draw, wall) ==
    LET IsCrime(i) == i.base_severity > 0
        crime_incidents == SelectSeq(existing_incidents, IsCrime)
        new_lat ==
            IF draw.near /\ existing_incidents # <<>> /\ crime_incidents # <<>>
            THEN crime_incidents[((draw.anchor - 1) % Len(crime_incidents)) + 1].latitude
                 + draw.lat_offset
            ELSE draw.box_lat
    IN [id |-> <<"SIM", SecondsOf(wall), draw.suffix>>,
        type |-> draw.ctype,
        latitude |-> new_lat,
        base_severity |-> CrimeBaseSeverity(draw.ctype),
        dynamic_risk_score |-> CrimeBaseSeverity(draw.ctype) * 100,
        timestamp |-> wall,
        last_updated |-> wall,
        time_decay_factor |-> CrimeDecayRate(draw.ctype),
        hotspot_density |-> 100,
        safety_influence |-> 0,
        description |-> <<"Simulated", draw.ctype>>]

\* the loop of run_simulation's step 2 over the draws of the cycle
RECURSIVE InjectAll(_, _, _, _)
InjectAll(incs, draws, k, wall) ==
    IF k > Len(draws) THEN incs
    ELSE InjectAll(Append(incs, generate_new_incident(incs, draws[k], wall)),
                   draws, k + 1, wall)

\* round(x, 4) of a latitude x > 0 held in 1e-5 degree; half_up tells which
\* way the float of an exact half falls
Round4(x, half_up) ==
    LET r == x % 10
    IN IF r < 5 \/ (r = 5 /\ ~half_up) THEN x - r ELSE x - r + 10

\* mutant: the anchor is drawn among all the incidents, safety assets too
generate_near_any_incident(existing_incidents, draw, wall) ==
    LET g == generate_new_incident(existing_incidents, draw, wall)
        new_lat ==
            IF draw.near /\ existing_incidents # <<>>
            THEN existing_incidents[((draw.anchor - 1) % Len(existing_incidents)) + 1].latitude
                 + draw.lat_offset
            ELSE draw.box_lat
    IN [g EXCEPT !.latitude = Round4(new_lat, draw.half_up)]

\* generate_new_incident on incidents whose latitudes are held in 1e-5
\* degree, one digit more than it stores: the sum of the anchor's latitude
\* and the offset, or the latitude drawn in the box, goes through round(., 4)
generate_new_incident_fine(existing_incidents, draw, wall) ==
    LET g == generate_new_incident(existing_incidents, draw, wall)
    IN [g EXCEPT !.latitude = Round4(g.latitude, draw.half_up)]

\* sorted(incidents, key=dynamic_risk_score, reverse=True), a stable sort:
\* the incidents of the highest score in their order, then those of the next
\* score and so on; `placed` holds the scores already placed
RECURSIVE SortedByRisk(_, _)
SortedByRisk(incs, placed) ==
    LET left == {incs[i].dynamic_risk_score : i \in 1..Len(incs)} \ placed
    IN IF left = {} THEN <<>>
       ELSE LET top == CHOOSE m \in left : \A v \in left : v <= m
                HasTop(inc) == inc.dynamic_risk_score = top
            IN SelectSeq(incs, HasTop) \o SortedByRisk(incs, placed \cup {top})

\* the row save_to_csv writes for an incident: safety_influence as "%.2f"
\* (hundredths); hotspot_density is held in hundredths and the times in whole
\* seconds already
CsvRow(inc) ==
    [inc EXCEPT !.safety_influence = (inc.safety_influence + 500) \div 1000]

CsvRows(incs) ==
    LET s == SortedByRisk(incs, {}) IN [i \in 1..Len(s) |-> CsvRow(s[i])]


----------------------------------------------------------------------------
(* app.py: the scorers *)

\* get_time_risk_multiplier: <<multiplier in thousandths, label>>
\* mutant: the night window includes the hour 4
time_risk_multiplier_inclusive(hour) ==
    IF 22 <= hour \/ hour <= 4 THEN <<1800, "Night Travel Risk: HIGH">>
    ELSE IF 18 <= hour /\ hour < 22 THEN <<1300, "Evening Travel Risk: MODERATE">>
    ELSE IF 4 <= hour /\ hour < 7 THEN <<1200, "Early Morning Risk: SLIGHTLY ELEVATED">>
    ELSE <<1000, "Daytime Risk: NORMAL">>

get_time_risk_multiplier(hour) ==
    IF 22 <= hour \/ hour < 4 THEN <<1800, "Night Travel Risk: HIGH">>
    ELSE IF 18 <= hour /\ hour < 22 THEN <<1300, "Evening Travel Risk: MODERATE">>
    ELSE IF 4 <= hour /\ hour < 7 THEN <<1200, "Early Morning Risk: SLIGHTLY ELEVATED">>
    ELSE <<1000, "Daytime Risk: NORMAL">>

\* the frame a read of rows of crime_realtime.csv gives the scorers, with
\* base_severity in the place of severity
FrameOf(csv_rows) ==
    [i \in 1..Len(csv_rows) |->
        [id |-> csv_rows[i].id, type |-> csv_rows[i].type,
         latitude |-> csv_rows[i].latitude, severity |-> csv_rows[i].base_severity,
         timestamp |-> csv_rows[i].timestamp, description |-> csv_rows[i].description]]

\* mutant: the application reads the file the simulation is writing
ReadCsvRealtime == [exists |-> TRUE, rows |-> FrameOf(realtime_csv)]

\* pd.read_csv('crime_history.csv'): the rows, or the exception
ReadCsv == history_csv

\* mutant: an empty cache is loaded again
get_crime_df_retry ==
    IF ~crime_df.loaded \/ crime_df.rows = <<>>
    THEN IF ReadCsv.exists
         THEN [loaded |-> TRUE, rows |-> ReadCsv.rows]
         ELSE [loaded |-> TRUE, rows |-> <<>>]
    ELSE crime_df

\* get_crime_df: the value of _CRIME_DF after the call
get_crime_df ==
    IF ~crime_df.loaded
    THEN IF ReadCsv.exists
         THEN [loaded |-> TRUE, rows |-> ReadCsv.rows]
         ELSE [loaded |-> TRUE, rows |-> <<>>]
    ELSE crime_df

\* haversine on one meridian, in centimetres
haversine(lat1, lat2) ==
    LET d == Abs(lat2 - lat1) IN d * 1111 + (d * 949) \div 1000

Pin(crime) ==
    [lat |-> crime.latitude, type |-> crime.type, desc |-> crime.description,
     severity |-> crime.severity]

\* what the rows of `near` from the k-th on add to total_risk, in
\* thousandths: a negative severity scaled by credit_scale, any other by
\* danger_scale
RECURSIVE RiskOfRows(_, _, _, _)
RiskOfRows(near, k, credit_scale, danger_scale) ==
    IF k > Len(near) THEN 0
    ELSE LET severity == near[k].severity
         IN (IF severity < 0 THEN severity * credit_scale
             ELSE severity * danger_scale)
            + RiskOfRows(near, k + 1, credit_scale, danger_scale)

\* mutant: the multiplier scales safety credits too
SafetyRowsAllScaled(lat, rows, j, time_multiplier, acc) ==
    LET Near(crime) == haversine(lat, crime.latitude) < 30000
        near == SelectSeq(SubSeq(rows, j, Len(rows)), Near)
    IN [total_risk |-> acc.total_risk
                       + RiskOfRows(near, 1, time_multiplier, time_multiplier),
        unsafe_pins |-> acc.unsafe_pins \o [k \in 1..Len(near) |-> Pin(near[k])]]

\* the inner loop of calculate_safety, from row j on; acc = [total_risk, unsafe_pins],
\* total_risk in thousandths: the rows under 0.3 km of the vertex, in the
\* order of the frame, add their risk and their pins
SafetyRows(lat, rows, j, time_multiplier, acc) ==
    LET Near(crime) == haversine(lat, crime.latitude) < 30000
        near == SelectSeq(SubSeq(rows, j, Len(rows)), Near)
    IN [total_risk |-> acc.total_risk + RiskOfRows(near, 1, 1000, time_multiplier),
        unsafe_pins |-> acc.unsafe_pins \o [k \in 1..Len(near) |-> Pin(near[k])]]

\* mutant: every vertex is scored
RECURSIVE SafetyEveryVertex(_, _, _, _, _)
SafetyEveryVertex(geometry, i, rows, time_multiplier, acc) ==
    IF i > Len(geometry) THEN acc
    ELSE SafetyEveryVertex(geometry, i + 1, rows, time_multiplier,
                           SafetyRows(geometry[i], rows, 1, time_multiplier, acc))

\* the outer loop of calculate_safety, from 1-based index i on
RECURSIVE SafetyVertices(_, _, _, _, _)
SafetyVertices(geometry, i, rows, time_multiplier, acc) ==
    IF i > Len(geometry) THEN acc
    ELSE SafetyVertices(geometry, i + 5, rows, time_multiplier,
                        SafetyRows(geometry[i], rows, 1, time_multiplier, acc))

\* the k-th arrangement of seq, k >= 0
RECURSIVE Arrange(_, _)
Arrange(seq, k) ==
    IF seq = <<>> THEN <<>>
    ELSE LET n == Len(seq)
             p == (k % n) + 1
             rest == [i \in 1..(n - 1) |-> IF i < p THEN seq[i] ELSE seq[i + 1]]
         IN <<seq[p]>> \o Arrange(rest, k \div n)

\* seq without the later copies of an element
RECURSIVE FirstOccurrences(_, _, _)
FirstOccurrences(seq, i, acc) ==
    IF i > Len(seq) THEN acc
    ELSE FirstOccurrences(seq, i + 1,
             IF \E j \in 1..Len(acc) : acc[j] = seq[i] THEN acc ELSE Append(acc, seq[i]))

\* mutant: the pins are returned as collected
PinsAsCollected(unsafe_pins, seed) == Arrange(unsafe_pins, seed)

\* [dict(t) for t in {tuple(d.items()) for d in unsafe_pins}]: the distinct
\* pins, in the iteration order of a set of tuples of strings and numbers,
\* which the process's string hash seed decides
UniquePins(unsafe_pins, seed) == Arrange(FirstOccurrences(unsafe_pins, 1, <<>>), seed)

\* round(x, 2) of x >= 0 in thousandths, in hundredths
Round2(x) == (x + 5) \div 10

\* calculate_safety: [score in hundredths, pins]
calculate_safety(geometry, rows, time_multiplier, seed) ==
    LET acc == SafetyVertices(geometry, 1, rows, time_multiplier,
                              [total_risk |-> 0, unsafe_pins |-> <<>>])
        safety_score == Max(0, Min(100000, 100000 - acc.total_risk * 2))
    IN [score |-> Round2(safety_score),
        pins |-> UniquePins(acc.unsafe_pins, seed)]

\* number of pins of type t
PinCount(pins, t) == Cardinality({i \in 1..Len(pins) : pins[i].type = t})

\* max(crime_types, key=crime_types.get): the first type, in the order the
\* types first occur in pins, with the largest count
TopCrime(pins) ==
    LET best == CHOOSE i \in 1..Len(pins) :
                   /\ \A j \in 1..Len(pins) :
                          PinCount(pins, pins[j].type) <= PinCount(pins, pins[i].type)
                   /\ \A j \in 1..(i - 1) :
                          PinCount(pins, pins[j].type) < PinCount(pins, pins[i].type)
    IN pins[best].type

\* generate_safety_narrative: the template chosen and what it is filled with
generate_safety_narrative(score, pins, category, multiplier_label) ==
    IF pins = <<>>
    THEN IF score >= 8500
         THEN [template |-> "clear_path", count |-> 0, top_crime |-> "",
               label |-> multiplier_label]
         ELSE [template |-> "minimal_data", count |-> 0, top_crime |-> "",
               label |-> multiplier_label]
    ELSE LET top_crime == TopCrime(pins)
             count == Len(pins)
         IN IF category = "risky"
            THEN [template |-> "high_risk", count |-> count, top_crime |-> top_crime,
                  label |-> multiplier_label]
            ELSE IF category = "moderate"
            THEN [template |-> "stay_alert", count |-> count, top_crime |-> top_crime,
                  label |-> multiplier_label]
            ELSE [template |-> "generally_safe", count |-> count, top_crime |-> top_crime,
                  label |-> multiplier_label]

\* mutant: a score of exactly 70 is not safe
classify_strict(score) ==
    IF score > 7000 THEN <<"safe", "#10B981", "Safest Route">>
    ELSE IF score >= 4000 THEN <<"moderate", "#F59E0B", "Moderate Route">>
    ELSE <<"risk", "#EF4444", "Risky Route">>

\* classify_route_safety, score in hundredths
classify_route_safety(score) ==
    IF score >= 7000 THEN <<"safe", "#10B981", "Safest Route">>
    ELSE IF score >= 4000 THEN <<"moderate", "#F59E0B", "Moderate Route">>
    ELSE <<"risk", "#EF4444", "Risky Route">>

\* the body of the loop of get_triple_routes for one route
ScoreRoute(route, rows, multiplier, multiplier_label, seed) ==
    LET r == calculate_safety(route.geometry, rows, multiplier, seed)
        c == classify_route_safety(r.score)
    IN [geometry |-> route.geometry,
        safety_score |-> r.score,
        category |-> c[1],
        color |-> c[2],
        label |-> c[3],
        pins |-> r.pins,
        distance |-> (route.distance + 5) \div 10,
        narrative |-> generate_safety_narrative(r.score, r.pins, c[1], multiplier_label),
        time_label |-> multiplier_label]

\* mutant: a route is placed before the routes of equal score
RECURSIVE InsertByScoreUnstable(_, _)
InsertByScoreUnstable(sorted, r) ==
    IF sorted = <<>> THEN <<r>>
    ELSE IF Head(sorted).safety_score > r.safety_score
         THEN <<Head(sorted)>> \o InsertByScoreUnstable(Tail(sorted), r)
         ELSE <<r>> \o sorted

\* scored_routes.sort(key=safety_score, reverse=True): stable
RECURSIVE InsertByScore(_, _)
InsertByScore(sorted, r) ==
    IF sorted = <<>> THEN <<r>>
    ELSE IF Head(sorted).safety_score >= r.safety_score
         THEN <<Head(sorted)>> \o InsertByScore(Tail(sorted), r)
         ELSE <<r>> \o sorted

RECURSIVE SortByScore(_, _, _)
SortByScore(rs, k, acc) ==
    IF k > Len(rs) THEN acc
    ELSE SortByScore(rs, k + 1, InsertByScore(acc, rs[k]))


----------------------------------------------------------------------------
(* app.py: the point operations.  The point of a request is a latitude in   *)
(* units of 1e-6 degree; distances are centimetres.                         *)

\* haversine between a point and a row, on one meridian
haversine_micro(lat, row_latitude) ==
    LET d == Abs(row_latitude * 100 - lat) IN d * 11 + (d * 1195) \div 10000

\* seq[:n]
Take(seq, n) == SubSeq(seq, 1, Min(n, Len(seq)))

\* list.sort(key=lambda x: x['distance']): stable
RECURSIVE InsertByDistance(_, _)
InsertByDistance(sorted, e) ==
    IF sorted = <<>> THEN <<e>>
    ELSE IF Head(sorted).distance <= e.distance
         THEN <<Head(sorted)>> \o InsertByDistance(Tail(sorted), e)
         ELSE <<e>> \o sorted

RECURSIVE SortByDistance(_, _, _)
SortByDistance(es, k, acc) ==
    IF k > Len(es) THEN acc
    ELSE SortByDistance(es, k + 1, InsertByDistance(acc, es[k]))

\* find_nearest_safe_havens; distance is round(distance, 2) km, in hundredths
find_nearest_safe_havens(lat, rows, limit) ==
    LET IsSafety(row) == row.severity < 0
        safety_df == SelectSeq(rows, IsSafety)
        safe_havens ==
            [i \in 1..Len(safety_df) |->
                [type |-> safety_df[i].type,
                 lat |-> safety_df[i].latitude,
                 distance |-> (haversine_micro(lat, safety_df[i].latitude) + 500) \div 1000,
                 description |-> safety_df[i].description]]
    IN Take(SortByDistance(safe_havens, 1, <<>>), limit)

\* nearby_dangers.sort(key=lambda x: (-x['severity'], x['distance'])): stable
RECURSIVE InsertBySeverity(_, _)
InsertBySeverity(sorted, e) ==
    IF sorted = <<>> THEN <<e>>
    ELSE IF \/ Head(sorted).severity > e.severity
            \/ /\ Head(sorted).severity = e.severity
               /\ Head(sorted).distance <= e.distance
         THEN <<Head(sorted)>> \o InsertBySeverity(Tail(sorted), e)
         ELSE <<e>> \o sorted

RECURSIVE SortBySeverity(_, _, _)
SortBySeverity(es, k, acc) ==
    IF k > Len(es) THEN acc
    ELSE SortBySeverity(es, k + 1, InsertBySeverity(acc, es[k]))

\* get_sos_context; a danger's distance is round(distance * 1000, 0) metres
get_sos_context(lat, rows) ==
    LET IsDanger(row) == row.severity >= 7
        danger_df == SelectSeq(rows, IsDanger)
        IsNear(row) == haversine_micro(lat, row.latitude) < 50000
        near_df == SelectSeq(danger_df, IsNear)
        nearby_dangers ==
            [i \in 1..Len(near_df) |->
                [type |-> near_df[i].type,
                 severity |-> near_df[i].severity,
                 distance |-> (haversine_micro(lat, near_df[i].latitude) + 50) \div 100,
                 description |-> near_df[i].description]]
    IN [user_location |-> lat,
        timestamp |-> now,
        nearby_dangers |-> Take(SortBySeverity(nearby_dangers, 1, <<>>), 5),
        safe_havens |-> find_nearest_safe_havens(lat, rows, 2)]

\* mutant: every incident in the radius is summed, safety assets too
RECURSIVE RadarRowsSigned(_, _, _, _)
RadarRowsSigned(lat, rows, j, acc) ==
    IF j > Len(rows) THEN acc
    ELSE LET crime == rows[j]
             distance == haversine_micro(lat, crime.latitude)
             severity == crime.severity
         IN RadarRowsSigned(lat, rows, j + 1,
                IF distance < 100000
                THEN [total_risk |-> acc.total_risk + severity,
                      nearby_crimes |->
                          IF severity > 0
                          THEN Append(acc.nearby_crimes,
                                      [lat |-> crime.latitude, type |-> crime.type,
                                       distance |-> (distance + 50) \div 100,
                                       severity |-> severity])
                          ELSE acc.nearby_crimes]
                ELSE acc)

\* the loop of get_radar_scan, from row j on; acc = [total_risk, nearby_crimes]
RECURSIVE RadarRows(_, _, _, _)
RadarRows(lat, rows, j, acc) ==
    IF j > Len(rows) THEN acc
    ELSE LET crime == rows[j]
             distance == haversine_micro(lat, crime.latitude)
             severity == crime.severity
         IN RadarRows(lat, rows, j + 1,
                IF distance < 100000 /\ severity > 0
                THEN [total_risk |-> acc.total_risk + severity,
                      nearby_crimes |->
                          Append(acc.nearby_crimes,
                                 [lat |-> crime.latitude, type |-> crime.type,
                                  distance |-> (distance + 50) \div 100,
                                  severity |-> severity])]
                ELSE acc)

\* the body of get_radar_scan after the load; safety_score in tenths
RadarScan(lat, rows) ==
    LET acc == RadarRows(lat, rows, 1, [total_risk |-> 0, nearby_crimes |-> <<>>])
        nearby_crimes == Take(SortByDistance(acc.nearby_crimes, 1, <<>>), 5)
        safety_score == Max(0, Min(1000, 1000 - acc.total_risk * 15))
    IN [status |-> 200,
        safety_score |-> safety_score,
        nearby_crimes |-> Len(nearby_crimes),
        recent_incidents |-> nearby_crimes,
        safe_havens |-> find_nearest_safe_havens(lat, rows, 2)]

----------------------------------------------------------------------------
(* Inputs of the model *)

Midnight == 20 * 288
L0 == 130000

Row(n, ctype, lat, sev, ts) ==
    [id |-> <<"H", n, 0>>, type |-> ctype, latitude |-> lat, severity |-> sev,
     timestamp |-> ts, description |-> <<"Historical", n>>]

\* a police station with a 55-minute-old assault 56 m away, and a 25-hour-old
\* harassment with a second police station 33 m away
HistoryGuarded ==
    [exists |-> TRUE,
     rows |-> << Row(1, "Police Station", L0, -10, Midnight - 3000),
                 Row(2, "Assault", L0 + 5, 8, Midnight - 11),
                 Row(3, "Harassment", L0 + 200, 6, Midnight - 300),
                 Row(4, "Police Station", L0 + 197, -10, Midnight - 3000) >>]

\* a fresh cluster, an incident of a type CRIME_TYPES does not list, and an
\* old record of severity 0
HistoryCluster ==
    [exists |-> TRUE,
     rows |-> << Row(1, "Assault", L0, 8, Midnight - 1),
                 Row(2, "Robbery", L0 + 3, 7, Midnight - 2),
                 Row(3, "Murder", L0 + 6, 10, Midnight - 12),
                 Row(4, "Poor Lighting", L0 + 9, 4, Midnight - 287),
                 Row(5, "Isolated Area", L0 + 12, 0, Midnight - 600),
                 Row(6, "Harassment", L0 + 2, 6, Midnight - 3),
                 Row(7, "Drug Activity", L0 + 8, 7, Midnight - 5) >>]

HistoryMissing == [exists |-> FALSE, rows |-> <<>>]

\* a file of n rows: an assault a minute old and n - 1 CCTV zones far from it
HistoryOfSize(n) ==
    [exists |-> TRUE,
     rows |-> [i \in 1..n |->
                  IF i = 1 THEN Row(1, "Assault", L0, 8, Midnight - 1)
                  ELSE Row(i, "CCTV Zone", L0 + 3000 + i, -5, Midnight - 3000)]]

\* files of one row less than MAX_ACTIVE_INCIDENTS and of exactly as many
CapHistories ==
    {HistoryOfSize(MAX_ACTIVE_INCIDENTS - 1), HistoryOfSize(MAX_ACTIVE_INCIDENTS)}

Histories == {HistoryGuarded, HistoryCluster, HistoryMissing}
StartTimes == {Midnight, Midnight + 144}
Durations == {0, 5}

\* outcomes of the random source for one generate_new_incident
RandomOutcomes ==
    { [ctype |-> "Assault", near |-> TRUE, anchor |-> 2, lat_offset |-> 150,
       box_lat |-> 132000, suffix |-> 11],
      [ctype |-> "Harassment", near |-> TRUE, anchor |-> 2, lat_offset |-> -4,
       box_lat |-> 132000, suffix |-> 10],
      [ctype |-> "Drug Activity", near |-> FALSE, anchor |-> 1, lat_offset |-> 0,
       box_lat |-> 128000, suffix |-> 10] }

\* files with latitudes of 5 decimals, in 1e-5 degree: two dangers and a
\* police station; a police station alone
FineHistoryDangers ==
    [exists |-> TRUE,
     rows |-> << Row(1, "Assault", 1319276, 8, Midnight - 1),
                 Row(2, "Police Station", 1300000, -10, Midnight - 3000),
                 Row(3, "Robbery", 1308274, 7, Midnight - 2) >>]

FineHistoryAssets ==
    [exists |-> TRUE,
     rows |-> << Row(1, "Police Station", 1300000, -10, Midnight - 3000) >>]

FineHistories == {FineHistoryDangers, FineHistoryAssets, HistoryMissing}

\* outcomes of the random source with offsets and box latitudes in 1e-5
\* degree: the ends of uniform(-0.015, 0.015) and of uniform(12.8, 13.2)
FineOutcomes ==
    { [ctype |-> "Assault", near |-> n, anchor |-> a, lat_offset |-> o,
       box_lat |-> b, suffix |-> 10, half_up |-> h] :
          n \in BOOLEAN, a \in {1, 2}, o \in {-1500, 3, 1500},
          b \in {1280000, 1319996}, h \in BOOLEAN }

\* tick times of every hour of a day, and the sets recomputed at them
UpdateTimes == {Midnight + 12 * h : h \in 0..23}
UpdateHistories == {HistoryGuarded, HistoryCluster}

\* units the clock advances from one time.sleep to the next cycle
SleepUnits == {1}

\* two assaults near L0; a police station and a danger of severity 5 near
\* L0 + 1000; two rows equal in every field a pin records near L0 + 2000; a
\* row just outside and one just inside 300 m of L0 + 3000; severities 7 and
\* 8 near L0 + 4000
ScoreHistoryA ==
    [exists |-> TRUE,
     rows |-> << Row(1, "Assault", L0 + 10, 8, Midnight - 100),
                 Row(2, "Assault", L0 - 10, 8, Midnight - 100),
                 Row(3, "Police Station", L0 + 1005, -10, Midnight - 100),
                 Row(4, "Isolated Area", L0 + 995, 5, Midnight - 100),
                 [Row(5, "Robbery", L0 + 2000, 7, Midnight - 100)
                     EXCEPT !.description = "dup"],
                 [Row(6, "Robbery", L0 + 2000, 7, Midnight - 50)
                     EXCEPT !.description = "dup"],
                 Row(7, "Harassment", L0 + 3027, 6, Midnight - 100),
                 Row(8, "Poor Lighting", L0 + 2974, 0, Midnight - 100),
                 Row(9, "Robbery", L0 + 4000, 7, Midnight - 100),
                 Row(10, "Assault", L0 + 4001, 8, Midnight - 100) >>]

\* a dense danger zone near L0 and a CCTV zone near L0 + 1000
ScoreHistoryB ==
    [exists |-> TRUE,
     rows |-> << Row(1, "Robbery", L0 + 1, 7, Midnight - 100),
                 Row(2, "Assault", L0 + 2, 9, Midnight - 100),
                 Row(3, "Robbery", L0 + 3, 6, Midnight - 100),
                 Row(4, "CCTV Zone", L0 + 1000, -5, Midnight - 100) >>]

ScoreHistories == {ScoreHistoryA, ScoreHistoryB, HistoryMissing}
\* 23:00, 19:00, 05:00 and 12:00
ScoreTimes == {Midnight + 276, Midnight + 228, Midnight + 60, Midnight + 144}
HashSeeds == 0..5

\* around L0: three safety assets 556 m away, one south, the first of the
\* file, and two north, and a fourth 22 km away; nine dangers under 1 km, six of them of
\* severity >= 7 under 500 m, two of these 11 m away on either side, the
\* farther first; a danger just past 500 m, one just past 1 km and a record
\* of severity 0
PointHistory ==
    [exists |-> TRUE,
     rows |-> << Row(1, "Police Station", L0 - 50, -10, Midnight - 3000),
                 Row(2, "CCTV Zone", L0 + 50, -5, Midnight - 3000),
                 Row(3, "Police Station", L0 + 2000, -10, Midnight - 3000),
                 Row(4, "Assault", L0 - 1, 8, Midnight - 30),
                 Row(5, "Assault", L0 + 1, 8, Midnight - 31),
                 Row(6, "Robbery", L0 + 10, 7, Midnight - 32),
                 Row(7, "Robbery", L0 + 40, 7, Midnight - 33),
                 Row(8, "Drug Activity", L0 + 44, 7, Midnight - 34),
                 Row(9, "Drug Activity", L0 - 20, 7, Midnight - 35),
                 Row(10, "Poor Lighting", L0 + 3, 2, Midnight - 36),
                 Row(11, "Assault", L0 + 46, 9, Midnight - 37),
                 Row(12, "Harassment", L0 + 89, 3, Midnight - 38),
                 Row(13, "Robbery", L0 + 90, 7, Midnight - 39),
                 Row(14, "Isolated Area", L0 + 2, 0, Midnight - 40),
                 Row(15, "CCTV Zone", L0 + 50, -5, Midnight - 3000) >>]

PointHistories == {PointHistory, ScoreHistoryB, HistoryMissing}
\* every hour of a day
PointTimes == {Midnight + 12 * h : h \in 0..23}
\* 0.33 m north of L0, L0, L0 + 2000 and the latitude 0
PointLats == {L0 * 100 + 3, L0 * 100, (L0 + 2000) * 100, 0}

Route(geometry, distance) == [geometry |-> geometry, distance |-> distance]

RoutePool ==
    { Route(<<>>, 0),
      Route(<<L0>>, 1204),
      Route(<<L0, L0 + 1000, L0 + 1000, L0 + 1000, L0 + 1000, L0>>, 22500),
      Route(<<L0 + 1000>>, 800),
      Route(<<L0 + 5000, L0 + 2000, L0 + 2000>>, 33333),
      Route(<<L0 + 3000, L0, L0, L0, L0, L0 + 2000, L0, L0, L0, L0, L0 + 2000>>, 45678),
      Route(<<L0 + 1000, L0, L0, L0, L0, L0>>, 22500),
      Route(<<L0 + 4000>>, 150),
      Route(<<L0 + 4000, L0, L0, L0, L0, L0 + 4000>>, 99999) }

RouteInputs ==
    UNION { [1..n -> RoutePool] : n \in 1..MaxRoutes }

SpecRouteInputs == { << Route(<<L0, L0 + 200, L0 + 400>>, 4400) >> }

----------------------------------------------------------------------------
(* run_simulation *)

Load ==
    /\ pc = "load"
    /\ incidents' = load_base_data(history_csv, now)
    /\ start_time' = now
    /\ pc' = "loop"
    /\ UNCHANGED <<now, history_csv, realtime_csv, pruned_incidents, current_time,
                   duration_minutes, to_write, ticks_done, published, sim_count,
                   hash_seed, crime_df, req, response>>

\* the head of the while loop: current_time and the stop condition
LoopTop ==
    /\ pc = "loop"
    /\ current_time' = now
    /\ IF duration_minutes # 0 /\ SecondsOf(now - start_time) > duration_minutes * 60
       THEN pc' = "done"
       ELSE /\ ticks_done < MaxTicks
            /\ sim_count < MaxSim
            /\ pc' = "prune"
    /\ UNCHANGED <<now, history_csv, realtime_csv, incidents, pruned_incidents,
                   start_time, duration_minutes, to_write, ticks_done, published,
                   sim_count, hash_seed, crime_df, req, response>>

Prune ==
    /\ pc = "prune"
    /\ pruned_incidents' = PruneIncidents(incidents, current_time)
    /\ pc' = "inject"
    /\ UNCHANGED <<now, history_csv, realtime_csv, incidents, current_time,
                   start_time, duration_minutes, to_write, ticks_done, published,
                   sim_count, hash_seed, crime_df, req, response>>

\* mutant: incidents are injected whatever the size of the set
InjectUncapped ==
    /\ pc = "inject"
    /\ \E num_new \in 1..3 :
           /\ sim_count + num_new <= MaxSim
           /\ \E draws \in [1..num_new -> RandomOutcomes] :
                  pruned_incidents' = InjectAll(pruned_incidents, draws, 1, now)
           /\ sim_count' = sim_count + num_new
    /\ pc' = "recompute"
    /\ UNCHANGED <<now, history_csv, realtime_csv, incidents, current_time,
                   start_time, duration_minutes, to_write, ticks_done, published,
                   hash_seed, crime_df, req, response>>

Inject ==
    /\ pc = "inject"
    /\ IF Len(pruned_incidents) < MAX_ACTIVE_INCIDENTS
       THEN \E num_new \in 1..3 :
                /\ sim_count + num_new <= MaxSim
                /\ \E draws \in [1..num_new -> RandomOutcomes] :
                       pruned_incidents' = InjectAll(pruned_incidents, draws, 1, now)
                /\ sim_count' = sim_count + num_new
       ELSE UNCHANGED <<pruned_incidents, sim_count>>
    /\ pc' = "recompute"
    /\ UNCHANGED <<now, history_csv, realtime_csv, incidents, current_time,
                   start_time, duration_minutes, to_write, ticks_done, published,
                   hash_seed, crime_df, req, response>>

\* mutant: the scores are not recalculated before the flush
RecomputeSkipped ==
    /\ pc = "recompute"
    /\ incidents' = pruned_incidents
    /\ pc' = "persist"
    /\ UNCHANGED <<now, history_csv, realtime_csv, pruned_incidents, current_time,
                   start_time, duration_minutes, to_write, ticks_done, published,
                   sim_count, hash_seed, crime_df, req, response>>

Recompute ==
    /\ pc = "recompute"
    /\ pruned_incidents' = update_dynamic_scores(pruned_incidents, current_time, now)
    /\ incidents' = pruned_incidents'
    /\ pc' = "persist"
    /\ UNCHANGED <<now, history_csv, realtime_csv, current_time, start_time,
                   duration_minutes, to_write, ticks_done, published, sim_count,
                   hash_seed, crime_df, req, response>>

\* save_to_csv up to the header: open(filepath, 'w') empties the file
PersistOpen ==
    /\ pc = "persist"
    /\ IF incidents = <<>>
       THEN /\ pc' = "sleep"
            /\ UNCHANGED <<realtime_csv, to_write>>
       ELSE /\ realtime_csv' = <<>>
            /\ to_write' = CsvRows(incidents)
            /\ pc' = "writing"
    /\ UNCHANGED <<now, history_csv, incidents, pruned_incidents, current_time,
                   start_time, duration_minutes, ticks_done, published, sim_count,
                   hash_seed, crime_df, req, response>>

\* save_to_csv: one writer.writerow; after the last row the file is closed
PersistWrite ==
    /\ pc = "writing"
    /\ to_write # <<>>
    /\ realtime_csv' = Append(realtime_csv, Head(to_write))
    /\ to_write' = Tail(to_write)
    /\ IF Tail(to_write) = <<>>
       THEN /\ pc' = "sleep"
            /\ ticks_done' = ticks_done + 1
            /\ published' = Append(published, realtime_csv')
       ELSE UNCHANGED <<pc, ticks_done, published>>
    /\ UNCHANGED <<now, history_csv, incidents, pruned_incidents, current_time,
                   start_time, duration_minutes, sim_count, hash_seed, crime_df, req,
                   response>>

\* time.sleep(UPDATE_INTERVAL_SECONDS)
Sleep ==
    /\ pc = "sleep"
    /\ \E d \in SleepUnits : now' = now + d
    /\ pc' = "loop"
    /\ UNCHANGED <<history_csv, realtime_csv, incidents, pruned_incidents,
                   current_time, start_time, duration_minutes, to_write, ticks_done,
                   published, sim_count, hash_seed, crime_df, req, response>>

\* mutant: the signal is only taken while the loop sleeps
InterruptAsleep ==
    /\ pc = "sleep"
    /\ pc' = "done"
    /\ UNCHANGED <<now, history_csv, realtime_csv, incidents, pruned_incidents,
                   current_time, start_time, duration_minutes, to_write, ticks_done,
                   published, sim_count, hash_seed, crime_df, req, response>>

\* KeyboardInterrupt inside the try block
Interrupt ==
    /\ pc \in {"loop", "prune", "inject", "recompute", "persist", "writing", "sleep"}
    /\ pc' = "done"
    /\ UNCHANGED <<now, history_csv, realtime_csv, incidents, pruned_incidents,
                   current_time, start_time, duration_minutes, to_write, ticks_done,
                   published, sim_count, hash_seed, crime_df, req, response>>

\* one generate_new_incident appended to the active set, latitudes in 1e-5
\* degree
PlaceWith(draw) ==
    /\ pc = "inject"
    /\ sim_count < MaxSim
    /\ pruned_incidents' =
           Append(pruned_incidents,
                  generate_new_incident_fine(pruned_incidents, draw, now))
    /\ sim_count' = sim_count + 1
    /\ UNCHANGED <<now, history_csv, realtime_csv, pc, incidents, current_time,
                   start_time, duration_minutes, to_write, ticks_done, published,
                   hash_seed, crime_df, req, response>>

PlaceNew == \E draw \in FineOutcomes : PlaceWith(draw)

\* update_dynamic_scores is called once more on the same set with the same
\* current_time, the clock having moved on
RecomputeAgain ==
    /\ pc = "persist"
    /\ now - current_time < MaxLate
    /\ now' = now + 1
    /\ pc' = "recompute"
    /\ UNCHANGED <<history_csv, realtime_csv, incidents, pruned_incidents,
                   current_time, start_time, duration_minutes, to_write, ticks_done,
                   published, sim_count, hash_seed, crime_df, req, response>>

----------------------------------------------------------------------------
(* app.py: get_triple_routes, given the routes the routing provider returned *)

\* where the simulation stands in its cycle: between cycles, with a set
\* pruned or injected and not yet recomputed, or with the output file partly
\* written
LifecyclePhase ==
    IF pc = "writing" THEN "writing"
    ELSE IF pc \in {"inject", "recompute"} THEN "building"
    ELSE "idle"

GetTripleRoutes(routes) ==
    /\ routes # <<>>
    /\ LET df == get_crime_df
           m == get_time_risk_multiplier(HourOf(now))
           scored_routes == [i \in 1..Len(routes) |->
                                ScoreRoute(routes[i], df.rows, m[1], m[2], hash_seed)]
       IN /\ crime_df' = df
          /\ response' = [routes |-> SortByScore(scored_routes, 1, <<>>),
                          time_context |-> m[2]]
          /\ req' = [n |-> 1, ticks |-> ticks_done, phase |-> LifecyclePhase,
                      read |-> df.rows, endpoint |-> "get_triple_routes",
                      arg |-> routes]
    /\ UNCHANGED <<now, history_csv, realtime_csv, pc, incidents, pruned_incidents,
                   current_time, start_time, duration_minutes, to_write, ticks_done,
                   published, sim_count, hash_seed>>

RouteRequest == \E routes \in SpecRouteInputs : GetTripleRoutes(routes)

AnyRouteRequest == \E routes \in RouteInputs : GetTripleRoutes(routes)

\* what the point handlers leave alone
PointUnchanged ==
    UNCHANGED <<now, history_csv, realtime_csv, pc, incidents, pruned_incidents,
                current_time, start_time, duration_minutes, to_write, ticks_done,
                published, sim_count, hash_seed>>

PointReq(endpoint, lat, rows) ==
    [n |-> 1, ticks |-> ticks_done, phase |-> LifecyclePhase, read |-> rows,
     endpoint |-> endpoint, arg |-> lat]

FindSafeHavens(lat) ==
    /\ IF lat = 0
       THEN /\ crime_df' = crime_df
            /\ response' = [status |-> 400, error |-> "Coordinates required"]
            /\ req' = PointReq("find_safe_havens", lat, <<>>)
       ELSE LET df == get_crime_df
            IN /\ crime_df' = df
               /\ response' = [status |-> 200,
                               safe_havens |-> find_nearest_safe_havens(lat, df.rows, 5)]
               /\ req' = PointReq("find_safe_havens", lat, df.rows)
    /\ PointUnchanged

GetRadarScan(lat) ==
    /\ IF lat = 0
       THEN /\ crime_df' = crime_df
            /\ response' = [status |-> 400, error |-> "Coordinates required"]
            /\ req' = PointReq("get_radar_scan", lat, <<>>)
       ELSE LET df == get_crime_df
            IN /\ crime_df' = df
               /\ response' = RadarScan(lat, df.rows)
               /\ req' = PointReq("get_radar_scan", lat, df.rows)
    /\ PointUnchanged

SendSos(lat) ==
    /\ IF lat = 0
       THEN /\ crime_df' = crime_df
            /\ response' = [status |-> 400, error |-> "Location required"]
            /\ req' = PointReq("send_sos", lat, <<>>)
       ELSE LET df == get_crime_df
            IN /\ crime_df' = df
               /\ response' = [status |-> 200,
                               sos_context |-> get_sos_context(lat, df.rows)]
               /\ req' = PointReq("send_sos", lat, df.rows)
    /\ PointUnchanged

GetStats ==
    /\ LET df == get_crime_df
           IsCrime(row) == row.severity > 0
           IsHigh(row) == row.severity >= 7
           IsSafe(row) == row.severity < 0
       IN /\ crime_df' = df
          /\ response' = [status |-> 200,
                          total_incidents |-> Len(SelectSeq(df.rows, IsCrime)),
                          high_severity |-> Len(SelectSeq(df.rows, IsHigh)),
                          safe_zones |-> Len(SelectSeq(df.rows, IsSafe)),
                          time_context |-> get_time_risk_multiplier(HourOf(now))[2]]
          /\ req' = PointReq("get_stats", 0, df.rows)
    /\ PointUnchanged

SafeHavensRequest == \E lat \in PointLats : FindSafeHavens(lat)
RadarRequest == \E lat \in PointLats : GetRadarScan(lat)
SosRequest == \E lat \in PointLats : SendSos(lat)

\* crime_history.csv is put in place while the application runs
HistoryAppears ==
    /\ ~history_csv.exists
    /\ history_csv' = PointHistory
    /\ UNCHANGED <<now, realtime_csv, pc, incidents, pruned_incidents, current_time,
                   start_time, duration_minutes, to_write, ticks_done, published,
                   sim_count, hash_seed, crime_df, req, response>>

----------------------------------------------------------------------------
(* Specifications *)

InitCommon ==
    /\ realtime_csv = <<>>
    /\ pc = "load"
    /\ incidents = <<>>
    /\ pruned_incidents = <<>>
    /\ current_time = now
    /\ start_time = now
    /\ to_write = <<>>
    /\ ticks_done = 0
    /\ published = <<>>
    /\ sim_count = 0
    /\ crime_df = [loaded |-> FALSE, rows |-> <<>>]
    /\ req = [n |-> 0, ticks |-> 0, phase |-> "idle", read |-> <<>>,
              endpoint |-> "", arg |-> <<>>]
    /\ response = [routes |-> <<>>, time_context |-> ""]

\* the simulation and the web application, started together
Init ==
    /\ now \in StartTimes
    /\ history_csv \in Histories
    /\ duration_minutes \in Durations
    /\ hash_seed = 0
    /\ InitCommon

Next ==
    \/ Load
    \/ LoopTop
    \/ Prune
    \/ Inject
    \/ Recompute
    \/ PersistOpen
    \/ PersistWrite
    \/ Sleep
    \/ Interrupt
    \/ RouteRequest

Spec == Init /\ [][Next]_vars

\* the simulation alone, started on a file that fills the active set
InitCap ==
    /\ now = Midnight
    /\ history_csv \in CapHistories
    /\ duration_minutes = 0
    /\ hash_seed = 0
    /\ InitCommon

NextCap ==
    \/ Load
    \/ LoopTop
    \/ Prune
    \/ Inject
    \/ Recompute
    \/ PersistOpen
    \/ PersistWrite
    \/ Sleep
    \/ Interrupt

SpecCap == InitCap /\ [][NextCap]_vars

\* update_dynamic_scores called on a loaded set with a tick time of any hour
InitUpdate ==
    /\ current_time \in UpdateTimes
    /\ now = current_time
    /\ history_csv \in UpdateHistories
    /\ incidents = load_base_data(history_csv, now)
    /\ pruned_incidents = incidents
    /\ pc = "recompute"
    /\ start_time = now
    /\ duration_minutes = 0
    /\ hash_seed = 0
    /\ realtime_csv = <<>>
    /\ to_write = <<>>
    /\ ticks_done = 0
    /\ published = <<>>
    /\ sim_count = 0
    /\ crime_df = [loaded |-> FALSE, rows |-> <<>>]
    /\ req = [n |-> 0, ticks |-> 0, phase |-> "idle", read |-> <<>>,
              endpoint |-> "", arg |-> <<>>]
    /\ response = [routes |-> <<>>, time_context |-> ""]

NextUpdate ==
    \/ Recompute
    \/ RecomputeAgain

SpecUpdate == InitUpdate /\ [][NextUpdate]_vars

\* the inject step alone, on loaded sets with latitudes of 5 decimals
InitPlace ==
    /\ now = Midnight
    /\ current_time = now
    /\ history_csv \in FineHistories
    /\ incidents = load_base_data(history_csv, now)
    /\ pruned_incidents = incidents
    /\ pc = "inject"
    /\ start_time = now
    /\ duration_minutes = 0
    /\ hash_seed = 0
    /\ realtime_csv = <<>>
    /\ to_write = <<>>
    /\ ticks_done = 0
    /\ published = <<>>
    /\ sim_count = 0
    /\ crime_df = [loaded |-> FALSE, rows |-> <<>>]
    /\ req = [n |-> 0, ticks |-> 0, phase |-> "idle", read |-> <<>>,
              endpoint |-> "", arg |-> <<>>]
    /\ response = [routes |-> <<>>, time_context |-> ""]

NextPlace == PlaceNew

SpecPlace == InitPlace /\ [][NextPlace]_vars

\* the web application alone, over route requests
InitScore ==
    /\ now \in ScoreTimes
    /\ history_csv \in ScoreHistories
    /\ duration_minutes = 0
    /\ hash_seed \in HashSeeds
    /\ InitCommon

NextScore == AnyRouteRequest

SpecScore == InitScore /\ [][NextScore]_vars

\* the web application alone, over the point requests and a route request
InitPoint ==
    /\ now \in PointTimes
    /\ history_csv \in PointHistories
    /\ duration_minutes = 0
    /\ hash_seed = 0
    /\ InitCommon

NextPoint ==
    \/ SafeHavensRequest
    \/ RadarRequest
    \/ SosRequest
    \/ GetStats
    \/ RouteRequest
    \/ HistoryAppears

SpecPoint == InitPoint /\ [][NextPoint]_vars



----------------------------------------------------------------------------
(* Properties of the lifecycle and of what the scorers read *)

\* the rows get_crime_df gives when it loads at the first access
InitialLoad == IF history_csv.exists THEN history_csv.rows ELSE <<>>

\* C1: a scoring request never scores an incident set caught in the middle
\* of a tick (pruned or injected and not recomputed, or partly written out):
\* the rows it reads are the initial load or the complete output of a
\* finished tick.
C1_ReadsCompleteSnapshot ==
    req.n > 0 =>
        \/ req.read = InitialLoad
        \/ \E k \in 1..Len(published) : req.read = FrameOf(published[k])

\* a request served while the output file was partly written
C1_Witness ==
    /\ req.n > 0
    /\ req.phase = "writing"
    /\ req.ticks >= 1
    /\ req.read # <<>>

\* C2: a scoring request issued after a lifecycle tick has completed scores
\* the incident set that tick published.
C2_ScoresPublishedSnapshot ==
    (req.n > 0 /\ req.ticks >= 1) => req.read = FrameOf(published[req.ticks])

HasId(incs, id) == \E i \in 1..Len(incs) : incs[i].id = id

\* C3: every safety asset of the loaded set is in the active set after any
\* number of ticks, and in the working set of a tick after its prune step.
C3_SafetyAssetsKept ==
    pc # "load" =>
        \A j \in 1..Len(history_csv.rows) :
            history_csv.rows[j].severity < 0 =>
                /\ HasId(incidents, history_csv.rows[j].id)
                /\ pc \in {"inject", "recompute"} =>
                       HasId(pruned_incidents, history_csv.rows[j].id)

\* two ticks on, a danger incident of the load is gone and a safety asset
\* older than an hour with a score below 0.5 is still there
C3_Witness ==
    /\ ticks_done >= 2
    /\ \E j \in 1..Len(history_csv.rows) :
           history_csv.rows[j].severity > 0 /\ ~HasId(incidents, history_csv.rows[j].id)
    /\ \E i \in 1..Len(incidents) :
           /\ incidents[i].base_severity < 0
           /\ incidents[i].dynamic_risk_score < 50
           /\ SecondsOf(current_time - incidents[i].timestamp) >= 3600

\* incidents holds the result of an update_dynamic_scores
AfterRecompute == pc \in {"persist", "writing", "sleep"} \/ ticks_done >= 1

\* C4: after every recompute a safety asset has dynamic_risk_score =
\* base_severity, hotspot_density 1.0 and safety_influence 0.0, and every
\* other incident has 0 <= dynamic_risk_score <= 10, 1.0 <= hotspot_density
\* <= 2.0 and safety_influence >= 0.
C4_DerivedFieldRanges ==
    AfterRecompute =>
        \A i \in 1..Len(incidents) :
            LET inc == incidents[i] IN
            IF inc.base_severity < 0
            THEN /\ inc.dynamic_risk_score = inc.base_severity * 100
                 /\ inc.hotspot_density = 100
                 /\ inc.safety_influence = 0
            ELSE /\ 0 <= inc.dynamic_risk_score /\ inc.dynamic_risk_score <= 1000
                 /\ 100 <= inc.hotspot_density /\ inc.hotspot_density <= 200
                 /\ inc.safety_influence >= 0

\* a recomputed set with a danger incident capped at 10 inside a cluster
\* whose density is capped at 2.0
C4_Witness ==
    /\ AfterRecompute
    /\ \E i \in 1..Len(incidents) :
           /\ incidents[i].base_severity > 0
           /\ incidents[i].dynamic_risk_score = 1000
           /\ incidents[i].hotspot_density = 200

\* a tick's prune removes this incident
Removable(inc) ==
    /\ inc.dynamic_risk_score < 50
    /\ SecondsOf(current_time - inc.timestamp) >= 3600
    /\ ~(inc.base_severity < 0)

\* C5: the prune step removes an incident if and only if its score is below
\* 0.5, it occurred at least 3600 s before the tick's time and it is not a
\* safety asset; every other incident is kept, in order.
C5_PruneExactly ==
    pc = "inject" =>
        LET Kept(inc) == ~Removable(inc) IN pruned_incidents = SelectSeq(incidents, Kept)

\* a prune that removes an incident exactly one hour old and keeps one with
\* a score below 0.5 that is younger
C5_Witness ==
    /\ pc = "inject"
    /\ \E i \in 1..Len(incidents) :
           /\ Removable(incidents[i])
           /\ SecondsOf(current_time - incidents[i].timestamp) = 3600
           /\ ~HasId(pruned_incidents, incidents[i].id)
    /\ \E i \in 1..Len(incidents) :
           /\ incidents[i].base_severity > 0
           /\ incidents[i].dynamic_risk_score < 50
           /\ SecondsOf(current_time - incidents[i].timestamp) < 3600
           /\ HasId(pruned_incidents, incidents[i].id)

\* the successions of steps of a cycle, and the exits
PhaseOrder ==
    { <<"load", "loop">>, <<"loop", "prune">>, <<"prune", "inject">>,
      <<"inject", "recompute">>, <<"recompute", "persist">>,
      <<"persist", "writing">>, <<"persist", "sleep">>, <<"writing", "sleep">>,
      <<"sleep", "loop">> }
    \cup { <<p, "done">> : p \in {"loop", "prune", "inject", "recompute", "persist",
                                  "writing", "sleep"} }

\* C6: a cycle runs Prune, Inject, Recompute, Persist, Sleep in this order
\* and the next cycle starts with Prune; what Persist is given is the
\* recompute of the set the same cycle pruned and injected.
C6_PhaseOrder ==
    /\ [][pc' # pc => <<pc, pc'>> \in PhaseOrder]_vars
    /\ [](pc = "persist" =>
            incidents = update_dynamic_scores(pruned_incidents, current_time, now))

\* the second cycle has pruned after a first one that injected and persisted
C6_Witness ==
    /\ pc = "inject"
    /\ ticks_done = 1
    /\ sim_count >= 1
    /\ realtime_csv # <<>>


\* a request served after a tick finished reads the initial load, which is
\* not what the tick published
C2_Witness ==
    /\ req.n > 0
    /\ req.ticks >= 1
    /\ req.read = InitialLoad
    /\ req.read # FrameOf(published[req.ticks])

----------------------------------------------------------------------------
(* Properties of route scoring *)

\* the vertices scored: 0-based indices 0, 5, 10, ...
SampledIndices(geometry) == {i \in 1..Len(geometry) : (i - 1) % 5 = 0}

\* the pairs (vertex, row) of a set of vertices with the row under 0.3 km
NearPairs(geometry, indices, rows) ==
    {p \in indices \X (1..Len(rows)) :
        haversine(geometry[p[1]], rows[p[2]].latitude) < 30000}

\* what one pair adds to the accumulator, in thousandths
Contribution(severity, time_multiplier) ==
    IF severity < 0 THEN severity * 1000 ELSE severity * time_multiplier

RECURSIVE SumOfPairs(_, _, _)
SumOfPairs(pairs, rows, time_multiplier) ==
    IF pairs = {} THEN 0
    ELSE LET p == CHOOSE q \in pairs : TRUE
         IN Contribution(rows[p[2]].severity, time_multiplier)
            + SumOfPairs(pairs \ {p}, rows, time_multiplier)

\* the multiplier of the request's time, in thousandths
RequestMultiplier == get_time_risk_multiplier(HourOf(now))[1]

\* 100 - 2 * acc clamped to [0, 100], in thousandths
ClampedScore(geometry, rows) ==
    LET acc == SumOfPairs(NearPairs(geometry, SampledIndices(geometry), rows),
                          rows, RequestMultiplier)
    IN Max(0, Min(100000, 100000 - 2 * acc))

ScoredRoutes == {response.routes[k] : k \in 1..Len(response.routes)}

\* C7: safety_score = clamp(100 - 2*acc, 0, 100) rounded to 2 decimals, acc
\* the sum over the pairs (vertex at index 0, 5, 10, ..., incident under
\* 0.3 km from it) of the severity if negative and severity * time_multiplier
\* otherwise; the score is in [0, 100].
C7_ScoreFormula ==
    \A r \in ScoredRoutes :
        LET exact == ClampedScore(r.geometry, req.read)
        IN /\ r.safety_score * 10 - exact \in -5..5
           /\ 0 <= r.safety_score /\ r.safety_score <= 10000

\* at night, a route of six vertices with a safety credit and dangers at its
\* sampled vertices, incidents near unsampled ones and a score strictly
\* inside the range, next to a route whose score is clamped at 0
C7_Witness ==
    /\ RequestMultiplier = 1800
    /\ \E r \in ScoredRoutes :
           /\ Len(r.geometry) > 5
           /\ 0 < r.safety_score /\ r.safety_score < 10000
           /\ \E k \in 1..Len(r.pins) : r.pins[k].severity < 0
           /\ \E k \in 1..Len(r.pins) : r.pins[k].severity > 0
           /\ NearPairs(r.geometry, (1..Len(r.geometry)) \ SampledIndices(r.geometry),
                        req.read) # {}
    /\ \E r \in ScoredRoutes :
           /\ r.safety_score = 0
           /\ r.pins # <<>>

\* C8: with at least one flagged pin the narrative template follows the
\* classification: "risk" gets the high-risk warning naming the most
\* frequent flagged category, "moderate" the stay-alert message, "safe" the
\* generally-safe message, each ending with the time-of-day label.
C8_NarrativeByClass ==
    \A r \in ScoredRoutes :
        r.pins # <<>> =>
            /\ r.category = "risk" =>
                   r.narrative.template = "high_risk" /\ r.narrative.top_crime = TopCrime(r.pins)
            /\ r.category = "moderate" => r.narrative.template = "stay_alert"
            /\ r.category = "safe" => r.narrative.template = "generally_safe"
            /\ r.narrative.label = response.time_context

\* a route classified "risk" whose narrative is the generally-safe message
C8_Witness ==
    \E r \in ScoredRoutes :
        /\ r.pins # <<>>
        /\ r.safety_score < 4000
        /\ r.category = "risk"
        /\ r.narrative.template = "generally_safe"

\* C9: every score is in exactly one class: >= 70 "safe", 40 <= score < 70
\* "moderate", < 40 "risk", each with its colour and label.
C9_ClassPartition ==
    \A r \in ScoredRoutes :
        /\ r.category = "safe" <=> r.safety_score >= 7000
        /\ r.category = "moderate" <=> (4000 <= r.safety_score /\ r.safety_score < 7000)
        /\ r.category = "risk" <=> r.safety_score < 4000
        /\ <<r.category, r.color, r.label>> \in
               { <<"safe", "#10B981", "Safest Route">>,
                 <<"moderate", "#F59E0B", "Moderate Route">>,
                 <<"risk", "#EF4444", "Risky Route">> }

\* by day, two dangers of severity 8 at the one sampled vertex give 68 and
\* "moderate"; next to it a route of score exactly 70, "safe"
C9_Witness ==
    /\ RequestMultiplier = 1000
    /\ \E r \in ScoredRoutes :
           /\ Len(r.geometry) = 1
           /\ Len(r.pins) = 2
           /\ \A k \in 1..2 : r.pins[k].severity = 8
           /\ r.safety_score = 6800
           /\ r.category = "moderate"
    /\ \E r \in ScoredRoutes :
           /\ r.safety_score = 7000
           /\ r.category = "safe"

\* C10: the pin list is empty if and only if no incident is under 0.3 km
\* from a sampled vertex, and then the score is 100.0, the class "safe" and
\* the narrative the clear-path message; the below-85 message without pins
\* is never produced.
C10_NoPinsClearPath ==
    \A r \in ScoredRoutes :
        /\ r.pins = <<>> <=>
               NearPairs(r.geometry, SampledIndices(r.geometry), req.read) = {}
        /\ r.pins = <<>> =>
               /\ r.safety_score = 10000
               /\ r.category = "safe"
               /\ r.narrative.template = "clear_path"
        /\ r.narrative.template # "minimal_data"

\* a route without pins although incidents are near its unsampled vertices,
\* next to a route with pins
C10_Witness ==
    /\ \E r \in ScoredRoutes :
           /\ r.pins = <<>>
           /\ r.geometry # <<>>
           /\ NearPairs(r.geometry, (1..Len(r.geometry)) \ SampledIndices(r.geometry),
                        req.read) # {}
           /\ r.narrative.template = "clear_path"
    /\ \E r \in ScoredRoutes : r.pins # <<>>


\* the pins of the rows under 0.3 km from a sampled vertex
NearPins(geometry, rows) ==
    {Pin(rows[p[2]]) : p \in NearPairs(geometry, SampledIndices(geometry), rows)}

\* C11: the pin list has no two entries equal in all recorded fields: it
\* lists each pin of a row near a sampled vertex exactly once, also a row
\* near several sampled vertices, which the accumulator counts once per
\* vertex.
C11_PinsDistinct ==
    \A r \in ScoredRoutes :
        /\ \A i, j \in 1..Len(r.pins) : r.pins[i] = r.pins[j] => i = j
        /\ {r.pins[i] : i \in 1..Len(r.pins)} = NearPins(r.geometry, req.read)
        /\ Len(r.pins) = Cardinality(NearPins(r.geometry, req.read))

\* by day two assaults of severity 8 lie near both sampled vertices of a
\* route: they are counted four times (score 100 - 2 * 32) and listed twice
C11_Witness ==
    /\ RequestMultiplier = 1000
    /\ \E r \in ScoredRoutes :
           /\ Cardinality(SampledIndices(r.geometry)) = 2
           /\ Cardinality(NearPairs(r.geometry, SampledIndices(r.geometry), req.read)) = 4
           /\ Len(r.pins) = 2
           /\ r.safety_score = 3600


\* the one-to-one assignments of the places 1..n of the response to the
\* places of the provider's list
Placements(n) ==
    {pi \in [1..n -> 1..n] : \A k, l \in 1..n : pi[k] = pi[l] => k = l}

\* C12: the scored routes are in non-increasing order of safety_score,
\* routes of equal score in the order the provider returned them, and each
\* route's score is that of its own geometry on the incident set and the
\* multiplier.
C12_SortedStable ==
    req.endpoint = "get_triple_routes" =>
        LET out == response.routes
            given == req.arg
            n == Len(given)
        IN /\ Len(out) = n
           /\ \A k \in 1..(n - 1) : out[k].safety_score >= out[k + 1].safety_score
           /\ \E pi \in Placements(n) :
                  /\ \A k \in 1..n :
                         /\ out[k].geometry = given[pi[k]].geometry
                         /\ out[k].distance = (given[pi[k]].distance + 5) \div 10
                  /\ \A k, l \in 1..n :
                         (k < l /\ out[k].safety_score = out[l].safety_score)
                             => pi[k] < pi[l]
           /\ \A k \in 1..n :
                  out[k].safety_score * 10 = ClampedScore(out[k].geometry, req.read)

\* two different routes of equal score below 100, with incidents near both,
\* returned in the provider's order
C12_Witness ==
    /\ req.endpoint = "get_triple_routes"
    /\ Len(req.arg) = 2
    /\ response.routes[1].safety_score = response.routes[2].safety_score
    /\ response.routes[1].safety_score < 10000
    /\ response.routes[1].geometry # response.routes[2].geometry
    /\ response.routes[1].geometry = req.arg[1].geometry


\* what a run of the scorer in a process of hash seed `seed` returns for
\* the geometry, incident set and multiplier of a scored route
OtherRun(r, seed) ==
    LET o == calculate_safety(r.geometry, req.read, RequestMultiplier, seed)
        c == classify_route_safety(o.score)
    IN [safety_score |-> o.score, pins |-> o.pins,
        narrative |-> generate_safety_narrative(o.score, o.pins, c[1],
                                                response.time_context)]

\* C13: two runs of the scorer on the same incident set, geometry and
\* multiplier give the same score, the same pin list in the same order and
\* the same narrative.
C13_Deterministic ==
    \A r \in ScoredRoutes : \A seed \in HashSeeds :
        /\ OtherRun(r, seed).safety_score = r.safety_score
        /\ OtherRun(r, seed).pins = r.pins
        /\ OtherRun(r, seed).narrative = r.narrative

\* a route with one pin of each of two categories: a run under another hash
\* seed lists the same pins in another order and names the other category
C13_Witness ==
    \E r \in ScoredRoutes : \E seed \in HashSeeds :
        /\ Len(r.pins) = 2
        /\ OtherRun(r, seed).safety_score = r.safety_score
        /\ {OtherRun(r, seed).pins[i] : i \in 1..2} = {r.pins[i] : i \in 1..2}
        /\ OtherRun(r, seed).pins # r.pins
        /\ OtherRun(r, seed).narrative.top_crime # r.narrative.top_crime


----------------------------------------------------------------------------
(* Properties of the point operations *)

IsRadarResponse == req.endpoint = "get_radar_scan" /\ response.status = 200

\* the rows the radar scan counts: positive severity, under 1.0 km
RadarQualifying(lat, rows) ==
    {j \in 1..Len(rows) :
        rows[j].severity > 0 /\ haversine_micro(lat, rows[j].latitude) < 100000}

RECURSIVE SumOfSeverities(_, _)
SumOfSeverities(js, rows) ==
    IF js = {} THEN 0
    ELSE LET j == CHOOSE k \in js : TRUE
         IN rows[j].severity + SumOfSeverities(js \ {j}, rows)

\* C14: the radar score is clamp(100 - 1.5 * acc, 0, 100), acc the sum of
\* the severities of all incidents of positive severity under 1.0 km from
\* the point; safety assets and the time of day do not enter.
C14_RadarScore ==
    IsRadarResponse =>
        LET acc == SumOfSeverities(RadarQualifying(req.arg, req.read), req.read)
        IN response.safety_score = Max(0, Min(1000, 1000 - 15 * acc))

\* at night, a scan with nine qualifying incidents and safety assets under
\* 1 km whose score is strictly inside the range
C14_Witness ==
    /\ IsRadarResponse
    /\ get_time_risk_multiplier(HourOf(now))[1] = 1800
    /\ Cardinality(RadarQualifying(req.arg, req.read)) = 9
    /\ \E j \in 1..Len(req.read) :
           req.read[j].severity < 0 /\ haversine_micro(req.arg, req.read[j].latitude) < 100000
    /\ 0 < response.safety_score /\ response.safety_score < 1000


\* C15: the radar scan reports the number of qualifying incidents (positive
\* severity, under 1.0 km), also when more than 5 qualify, with at most 5 of
\* them: the nearest, in ascending order of distance.
C15_RadarCountAndNearest ==
    IsRadarResponse =>
        LET qualifying == RadarQualifying(req.arg, req.read)
            listed == response.recent_incidents
            Dist(e) == haversine_micro(req.arg, e.lat)
        IN /\ response.nearby_crimes = Cardinality(qualifying)
           /\ Len(listed) = Min(5, Cardinality(qualifying))
           /\ \A k \in 1..Len(listed) :
                  \E j \in qualifying :
                      /\ req.read[j].latitude = listed[k].lat
                      /\ req.read[j].type = listed[k].type
                      /\ req.read[j].severity = listed[k].severity
           /\ \A k \in 1..(Len(listed) - 1) : Dist(listed[k]) <= Dist(listed[k + 1])
           /\ \A j \in qualifying :
                  \/ \E k \in 1..Len(listed) : listed[k].lat = req.read[j].latitude
                  \/ \A k \in 1..Len(listed) :
                         Dist(listed[k]) <= haversine_micro(req.arg, req.read[j].latitude)

\* nine incidents qualify, five are listed and the count says five
C15_Witness ==
    /\ IsRadarResponse
    /\ Cardinality(RadarQualifying(req.arg, req.read)) = 9
    /\ Len(response.recent_incidents) = 5
    /\ response.nearby_crimes = 5


\* a response that carries safe havens: the list and the limit asked for
HasHavens ==
    /\ req.endpoint \in {"find_safe_havens", "get_radar_scan", "send_sos"}
    /\ response.status = 200

Havens ==
    IF req.endpoint = "send_sos" THEN response.sos_context.safe_havens
    ELSE response.safe_havens

HavenLimit == IF req.endpoint = "find_safe_havens" THEN 5 ELSE 2

SafetyAssets(rows) == {j \in 1..Len(rows) : rows[j].severity < 0}

\* the row j is the entry e of a list of safe havens
IsHaven(rows, j, e) ==
    /\ rows[j].latitude = e.lat
    /\ rows[j].type = e.type
    /\ rows[j].description = e.description

\* C16: the safe havens returned are min(limit, number of safety assets)
\* safety assets in non-decreasing order of distance to the point, whatever
\* the distance, and no safety asset left out is strictly nearer to the
\* point than one returned.
C16_NearestHavens ==
    HasHavens =>
        LET rows == req.read
            assets == SafetyAssets(rows)
            Dist(lat) == haversine_micro(req.arg, lat)
        IN /\ Len(Havens) = Min(HavenLimit, Cardinality(assets))
           /\ \A k \in 1..Len(Havens) : \E j \in assets : IsHaven(rows, j, Havens[k])
           /\ \A k \in 1..(Len(Havens) - 1) :
                  Dist(Havens[k].lat) <= Dist(Havens[k + 1].lat)
           /\ \A j \in assets :
                  (\A k \in 1..Len(Havens) : ~IsHaven(rows, j, Havens[k]))
                      => \A k \in 1..Len(Havens) :
                             Dist(Havens[k].lat) <= Dist(rows[j].latitude)

\* two safe havens asked for: one returned is farther from the point than a
\* safety asset left out, and both show the same distance
C16_Witness ==
    /\ HasHavens
    /\ HavenLimit = 2
    /\ Len(Havens) = 2
    /\ \E j \in SafetyAssets(req.read) : \E k \in 1..2 :
           /\ \A l \in 1..2 : ~IsHaven(req.read, j, Havens[l])
           /\ haversine_micro(req.arg, req.read[j].latitude)
                  < haversine_micro(req.arg, Havens[k].lat)
           /\ (haversine_micro(req.arg, req.read[j].latitude) + 500) \div 1000
                  = Havens[k].distance


IsSosResponse == req.endpoint = "send_sos" /\ response.status = 200

\* the rows the alert context may list: severity >= 7, under 0.5 km
SosQualifying(lat, rows) ==
    {j \in 1..Len(rows) :
        rows[j].severity >= 7 /\ haversine_micro(lat, rows[j].latitude) < 50000}

\* the row an entry of nearby_dangers was made from
RowOfDanger(rows, e) ==
    CHOOSE j \in 1..Len(rows) :
        /\ rows[j].description = e.description
        /\ rows[j].type = e.type
        /\ rows[j].severity = e.severity

\* row j comes no later than row i in the order of the alert context
SosBefore(lat, rows, j, i) ==
    \/ rows[j].severity > rows[i].severity
    \/ /\ rows[j].severity = rows[i].severity
       /\ haversine_micro(lat, rows[j].latitude) <= haversine_micro(lat, rows[i].latitude)

\* C17: the alert context lists the incidents of severity >= 7 under 0.5 km
\* from the point, by severity descending and, among equal severities, by
\* distance ascending, cut to the first 5, and the 2 nearest safety assets
\* whatever their distance.
C17_AlertContext ==
    IsSosResponse =>
        LET rows == req.read
            lat == req.arg
            qualifying == SosQualifying(lat, rows)
            listed == response.sos_context.nearby_dangers
            At(k) == RowOfDanger(rows, listed[k])
        IN /\ Len(listed) = Min(5, Cardinality(qualifying))
           /\ \A k \in 1..Len(listed) : At(k) \in qualifying
           /\ \A k, l \in 1..Len(listed) : At(k) = At(l) => k = l
           /\ \A k \in 1..(Len(listed) - 1) : SosBefore(lat, rows, At(k), At(k + 1))
           /\ \A j \in qualifying :
                  (\A k \in 1..Len(listed) : At(k) # j)
                      => \A k \in 1..Len(listed) : SosBefore(lat, rows, At(k), j)
           /\ Len(Havens) = Min(2, Cardinality(SafetyAssets(rows)))
           /\ \A j \in SafetyAssets(rows) :
                  (\A k \in 1..Len(Havens) : ~IsHaven(rows, j, Havens[k]))
                      => \A k \in 1..Len(Havens) :
                             haversine_micro(lat, Havens[k].lat)
                                 <= haversine_micro(lat, rows[j].latitude)

\* six incidents qualify and five are listed, with safe havens past 0.5 km;
\* the first two have the same severity and show the same distance in
\* metres, and the first is the farther one
C17_Witness ==
    /\ IsSosResponse
    /\ Cardinality(SosQualifying(req.arg, req.read)) = 6
    /\ Len(response.sos_context.nearby_dangers) = 5
    /\ \E k \in 1..Len(Havens) : haversine_micro(req.arg, Havens[k].lat) > 50000
    /\ LET listed == response.sos_context.nearby_dangers
           Dist(e) == haversine_micro(req.arg, req.read[RowOfDanger(req.read, e)].latitude)
       IN /\ listed[1].severity = listed[2].severity
          /\ listed[1].distance = listed[2].distance
          /\ Dist(listed[1]) > Dist(listed[2])


\* the store holds the empty fallback
EmptyStore == crime_df.loaded /\ crime_df.rows = <<>>

\* the last response reports maximal safety and nothing else
MaximalSafety ==
    IF req.endpoint = "get_triple_routes"
    THEN \A k \in 1..Len(response.routes) :
             /\ response.routes[k].safety_score = 10000
             /\ response.routes[k].pins = <<>>
    ELSE response.status = 200 =>
             CASE req.endpoint = "get_radar_scan" ->
                      /\ response.safety_score = 1000
                      /\ response.nearby_crimes = 0
                      /\ response.recent_incidents = <<>>
                      /\ response.safe_havens = <<>>
               [] req.endpoint = "send_sos" ->
                      /\ response.sos_context.nearby_dangers = <<>>
                      /\ response.sos_context.safe_havens = <<>>
               [] req.endpoint = "find_safe_havens" -> response.safe_havens = <<>>
               [] OTHER -> response.total_incidents = 0 /\ response.safe_zones = 0

\* C18: when crime_history.csv cannot be read at the first access the store
\* becomes the empty set without an error; from then on every route and
\* radar score is 100 with empty pin, danger and safe-haven lists, and the
\* store is kept: the file is not read again.
C18_FailOpen ==
    /\ [][(~crime_df.loaded /\ crime_df'.loaded /\ ~history_csv.exists)
             => crime_df'.rows = <<>>]_vars
    /\ []((req.n > 0 /\ EmptyStore) => (req.read = <<>> /\ MaximalSafety))
    /\ [][crime_df.loaded => crime_df' = crime_df]_vars

\* the file is in place, the store is still the empty fallback and a radar
\* scan at a point with nine incidents under 1 km answers 100
C18_Witness ==
    /\ history_csv.exists
    /\ EmptyStore
    /\ IsRadarResponse
    /\ Cardinality(RadarQualifying(req.arg, history_csv.rows)) = 9
    /\ response.safety_score = 1000
    /\ response.recent_incidents = <<>>


\* the pair the claim gives for an hour of the day
MultiplierTable(hour) ==
    CASE hour \in {22, 23, 0, 1, 2, 3} -> <<1800, "Night Travel Risk: HIGH">>
      [] hour \in 18..21 -> <<1300, "Evening Travel Risk: MODERATE">>
      [] hour \in {4, 5, 6} -> <<1200, "Early Morning Risk: SLIGHTLY ELEVATED">>
      [] hour \in 7..17 -> <<1000, "Daytime Risk: NORMAL">>

\* C19: get_time_risk_multiplier gives every hour 0..23 one pair: 1.8 HIGH
\* for 22..3, 1.3 MODERATE for 18..21, 1.2 SLIGHTLY ELEVATED for 4..6 and
\* 1.0 NORMAL for 7..17; it is the label the responses carry.
C19_TimeMultiplier ==
    LET hour == HourOf(now) IN
    /\ hour \in 0..23
    /\ get_time_risk_multiplier(hour) = MultiplierTable(hour)
    /\ req.endpoint \in {"get_stats", "get_triple_routes"}
           => response.time_context = MultiplierTable(hour)[2]

\* the statistics asked for at 04:00, the first hour of the early morning
C19_Witness ==
    /\ HourOf(now) = 4
    /\ req.endpoint = "get_stats"
    /\ response.time_context = "Early Morning Risk: SLIGHTLY ELEVATED"
    /\ get_time_risk_multiplier(HourOf(now))[1] = 1200


----------------------------------------------------------------------------
(* Properties of the incident records *)

\* the id an incident was created with: that of its row of the file, or
\* SIM, the second of its creation and a suffix
IdAsCreated(inc) ==
    \/ \E j \in 1..Len(history_csv.rows) :
           /\ inc.id = history_csv.rows[j].id
           /\ inc.type = history_csv.rows[j].type
           /\ inc.latitude = history_csv.rows[j].latitude
    \/ /\ inc.id[1] = "SIM"
       /\ inc.id[2] = SecondsOf(inc.timestamp)

\* C20: at all times no two distinct incidents of the active set share an
\* id, also after ticks that inject several incidents, and an incident
\* keeps the id it was created with.
C20_UniqueIds ==
    /\ \A i, j \in 1..Len(incidents) : incidents[i].id = incidents[j].id => i = j
    /\ \A i, j \in 1..Len(pruned_incidents) :
           pruned_incidents[i].id = pruned_incidents[j].id => i = j
    /\ \A i \in 1..Len(incidents) : IdAsCreated(incidents[i])

\* after a tick that injected two incidents in the same second with the
\* same suffix, two incidents of different types have one id
C20_Witness ==
    /\ ticks_done >= 1
    /\ \E i, j \in 1..Len(incidents) :
           /\ i # j
           /\ incidents[i].id = incidents[j].id
           /\ incidents[i].type # incidents[j].type
           /\ incidents[i].timestamp = incidents[j].timestamp
           /\ IdAsCreated(incidents[i]) /\ IdAsCreated(incidents[j])

----------------------------------------------------------------------------
(* Properties of the simulation loop *)

\* the points of the loop: its head, the five steps of a cycle and the
\* middle of the write of the output file
LoopPoints == {"loop", "prune", "inject", "recompute", "persist", "writing", "sleep"}

\* the variables a cycle of the loop works on
cycle_vars ==
    <<pc, incidents, pruned_incidents, current_time, realtime_csv, to_write,
      ticks_done, published, sim_count, now>>

\* the loop's own exit: a duration was given and has elapsed at the head
DurationElapsed ==
    /\ pc = "loop"
    /\ duration_minutes # 0
    /\ SecondsOf(now - start_time) > duration_minutes * 60

\* C21: the shutdown signal can be taken at every point of the loop, Sleep
\* included; taking it ends the loop where it stands, and once ended no step
\* of a cycle is started or completed; the loop ends only by the signal or,
\* with a duration configured, by the duration check at its head, so that
\* without either it never reaches the terminal state.
C21_Cancellable ==
    /\ [](pc \in LoopPoints => ENABLED Interrupt)
    /\ [][pc = "done" => UNCHANGED cycle_vars]_vars
    /\ [][(pc # "done" /\ pc' = "done") =>
              /\ Interrupt \/ DurationElapsed
              /\ UNCHANGED <<incidents, pruned_incidents, realtime_csv, to_write,
                             ticks_done, published, sim_count, now>>]_vars

\* without a duration, the loop was ended in the middle of the second
\* cycle's write: the output file holds some of the rows, the others were
\* never written
C21_Witness ==
    /\ pc = "done"
    /\ duration_minutes = 0
    /\ ticks_done = 1
    /\ to_write # <<>>
    /\ realtime_csv # <<>>

\* an incident as generate_new_incident leaves it: of a danger category, its
\* score the category's base severity, density 1.0 and influence 0.0
FreshDanger(inc) ==
    /\ inc.type \in DangerTypes
    /\ inc.base_severity = CrimeBaseSeverity(inc.type)
    /\ inc.base_severity > 0
    /\ inc.dynamic_risk_score = inc.base_severity * 100
    /\ inc.hotspot_density = 100
    /\ inc.safety_influence = 0

\* C22: the inject step adds incidents only to a pruned set smaller than
\* MAX_ACTIVE_INCIDENTS, and then between 1 and 3 of them, each a fresh
\* danger incident appended to the pruned set; at or above the cap the set is
\* left as pruned; the set after the step is never larger than the larger of
\* the pruned set's size and MAX_ACTIVE_INCIDENTS + 2.
C22_InjectBounded ==
    [][(pc = "inject" /\ pc' = "recompute") =>
          LET before == pruned_incidents
              after == pruned_incidents'
              n == Len(before)
          IN /\ Len(after) >= n
             /\ SubSeq(after, 1, n) = before
             /\ IF n < MAX_ACTIVE_INCIDENTS
                THEN /\ Len(after) - n \in 1..3
                     /\ \A k \in (n + 1)..Len(after) : FreshDanger(after[k])
                ELSE after = before
             /\ Len(after) <= Max(n, MAX_ACTIVE_INCIDENTS + 2)]_vars

\* the second cycle has pruned and injected: the first took the set from one
\* under the cap to one over it, and the second, finding it over the cap,
\* added nothing
C22_Witness ==
    /\ pc = "recompute"
    /\ ticks_done = 1
    /\ Len(history_csv.rows) = MAX_ACTIVE_INCIDENTS - 1
    /\ Len(pruned_incidents) = MAX_ACTIVE_INCIDENTS + 1
    /\ \A k \in 1..Len(pruned_incidents) : pruned_incidents[k].timestamp < current_time

\* the score update_dynamic_scores derives from the density and influence an
\* incident carries, at tick time t, in hundredths
ScoreFromFields(inc, t) ==
    IF inc.base_severity < 0 THEN inc.base_severity * 100
    ELSE LET raw == inc.base_severity * get_time_weight(inc.type, t)
                    * RecencyFactor(inc.time_decay_factor, t - inc.timestamp)
                    * inc.hotspot_density - inc.safety_influence * 100
         IN (Max(0, Min(100000000, raw)) + 50000) \div 100000

\* C23: in the set a tick produced every incident, those injected by the
\* tick included, has last_updated equal to the tick's time, the
\* hotspot_density and safety_influence of its place in that complete set
\* (pruned, then injected), and the dynamic_risk_score these two give: no
\* incident carries derived fields of an earlier tick.
C23_NoStaleFields ==
    pc \in {"persist", "writing", "sleep"} =>
        \A i \in 1..Len(incidents) :
            LET inc == incidents[i] IN
            /\ inc.last_updated = current_time
            /\ inc.hotspot_density = calculate_hotspot_density(inc, incidents, now)
            /\ inc.safety_influence = calculate_safety_influence(inc, incidents)
            /\ inc.dynamic_risk_score = ScoreFromFields(inc, current_time)

\* the second tick has recomputed: an incident it injected lies in a cluster
\* and a loaded incident counts it in its density, after the tick pruned
\* another loaded incident
C23_Witness ==
    /\ pc = "persist"
    /\ ticks_done = 1
    /\ Len(PruneIncidents(load_base_data(history_csv, start_time), current_time))
           < Len(history_csv.rows)
    /\ \E i, j \in 1..Len(incidents) :
           /\ incidents[i].id[1] = "SIM"
           /\ incidents[i].timestamp = current_time
           /\ incidents[i].hotspot_density > 100
           /\ incidents[j].id[1] = "H"
           /\ incidents[j].base_severity > 0
           /\ calculate_distance(incidents[i].latitude, incidents[j].latitude) <= 50000
           /\ incidents[j].hotspot_density
                  > calculate_hotspot_density(incidents[j],
                                              load_base_data(history_csv, start_time),
                                              now)

----------------------------------------------------------------------------
(* Properties of the temporal risk model *)

\* the other danger incidents within 0.5 km of incident i that occurred less
\* than 24 hours before time t
OthersNearAndRecent(incs, i, t) ==
    {j \in 1..Len(incs) :
        /\ j # i
        /\ incs[j].base_severity > 0
        /\ calculate_distance(incs[i].latitude, incs[j].latitude) <= 50000
        /\ SecondsOf(t - incs[j].timestamp) < 24 * 3600}

\* C24: after a recompute the hotspot_density of a danger incident is
\* min(1.0 + 0.15 * count, 2.0), count being the other danger incidents
\* within 0.5 km that occurred less than 24 hours before the tick time given
\* to the recompute: the densities depend on the incident set and that time
\* only.
C24_DensityAtTickTime ==
    pc = "persist" =>
        \A i \in 1..Len(incidents) :
            incidents[i].base_severity > 0 =>
                incidents[i].hotspot_density
                    = Min(100 + 15 * Cardinality(OthersNearAndRecent(incidents, i,
                                                                      current_time)),
                          200)

\* a recompute for the tick time of midnight, made when the clock has moved
\* on: a neighbour that occurred 23 h 55 min before the tick time is not
\* counted, and the density is lower than the one the same set and tick time
\* gave before
C24_Witness ==
    /\ pc = "persist"
    /\ now > current_time
    /\ \E i \in 1..Len(incidents) :
           /\ incidents[i].base_severity > 0
           /\ incidents[i].hotspot_density
                  < calculate_hotspot_density(incidents[i], incidents, current_time)
           /\ incidents[i].hotspot_density
                  = calculate_hotspot_density(incidents[i], incidents, now)
           /\ \E j \in OthersNearAndRecent(incidents, i, current_time) :
                  SecondsOf(now - incidents[j].timestamp) >= 24 * 3600

\* the weight the claim gives a category at an hour, in tenths
TimeWeightTable(ctype, hour) ==
    IF /\ ctype \in {"Assault", "Robbery", "Poor Lighting", "Isolated Area"}
       /\ hour \in {20, 21, 22, 23, 0, 1, 2, 3}
    THEN 13
    ELSE IF ctype = "Harassment" /\ hour \in 10..18 THEN 11 ELSE 10

\* the score of an incident at tick time t under time weight w, from the
\* density and influence it carries, in hundredths
ScoreWithWeight(inc, t, w) ==
    LET raw == inc.base_severity * w
               * RecencyFactor(inc.time_decay_factor, t - inc.timestamp)
               * inc.hotspot_density - inc.safety_influence * 100
    IN (Max(0, Min(100000000, raw)) + 50000) \div 100000

\* C25: the time weight of a recompute is 1.3 exactly for Assault, Robbery,
\* Poor Lighting and Isolated Area at the hours 20 to 23 and 0 to 3 (hour 4
\* not among them), 1.1 exactly for Harassment at the hours 10 to 18, and 1.0
\* in every other case; the recomputed score of a danger incident is the one
\* this weight gives.
C25_TimeWeight ==
    pc = "persist" =>
        /\ \A ctype \in DangerTypes \cup SafetyTypes :
               get_time_weight(ctype, current_time)
                   = TimeWeightTable(ctype, HourOf(current_time))
        /\ \A i \in 1..Len(incidents) :
               incidents[i].base_severity > 0 =>
                   incidents[i].dynamic_risk_score
                       = ScoreWithWeight(incidents[i], current_time,
                                         TimeWeightTable(incidents[i].type,
                                                         HourOf(current_time)))

\* a recompute for a tick time between 04:00 and 04:59: an assault has the
\* score of weight 1.3, which is not the score of weight 1.0
C25_Witness ==
    /\ pc = "persist"
    /\ HourOf(current_time) = 4
    /\ \E i \in 1..Len(incidents) :
           /\ incidents[i].type = "Assault"
           /\ incidents[i].dynamic_risk_score
                  = ScoreWithWeight(incidents[i], current_time, 13)
           /\ incidents[i].dynamic_risk_score
                  # ScoreWithWeight(incidents[i], current_time, 10)

----------------------------------------------------------------------------
(* Properties of the placement of injected incidents *)

\* the danger incidents of a set
DangersOf(incs) ==
    LET IsDanger(inc) == inc.base_severity > 0 IN SelectSeq(incs, IsDanger)

\* the bounding region of the latitudes, 12.8 to 13.2 degrees, in 1e-5 degree
InBox(lat) == 1280000 <= lat /\ lat <= 1320000

\* a placement under `draw`: on the near-repeat branch the stored latitude
\* is within `reach` of the latitude of the drawn anchor, a danger incident
\* of the active set; on the other branches, and whenever the active set
\* has no danger incident, it is inside the bounding region
PlacedWithin(draw, reach) ==
    LET dangers == DangersOf(pruned_incidents)
        new_incident == pruned_incidents'[Len(pruned_incidents')]
    IN IF draw.near /\ dangers # <<>>
       THEN LET anchor == dangers[((draw.anchor - 1) % Len(dangers)) + 1]
            IN /\ \E k \in 1..Len(pruned_incidents) :
                      pruned_incidents[k] = anchor /\ anchor.base_severity > 0
               /\ Abs(new_incident.latitude - anchor.latitude) <= reach
       ELSE InBox(new_incident.latitude)

\* the placement promised: within 0.015 degree of the anchor
C26_WithinOffset ==
    [][\A draw \in FineOutcomes : PlaceWith(draw) => PlacedWithin(draw, 1500)]_vars

\* C26: on the near-repeat branch the stored latitude differs from that of
\* the anchor, a danger incident of the active set, by at most 0.015 degree
\* and the rounding to 4 decimals, 0.01505 degree in all; when the active
\* set has no danger incident, and on the random branch, the stored latitude
\* is inside the bounding region.
C26_WithinOffsetRounded ==
    [][\A draw \in FineOutcomes : PlaceWith(draw) => PlacedWithin(draw, 1505)]_vars

\* an incident stored outside the bounding region, hence placed near an
\* anchor, at more than 0.015 degree from every danger incident the set held
C26_Witness ==
    \E k \in 1..Len(pruned_incidents) :
        /\ pruned_incidents[k].id[1] = "SIM"
        /\ ~InBox(pruned_incidents[k].latitude)
        /\ \A j \in 1..(k - 1) :
               pruned_incidents[j].base_severity > 0 =>
                   Abs(pruned_incidents[k].latitude - pruned_incidents[j].latitude) > 1500
        /\ \E j \in 1..(k - 1) :
               /\ pruned_incidents[j].base_severity > 0
               /\ Abs(pruned_incidents[k].latitude - pruned_incidents[j].latitude) <= 1505

----------------------------------------------------------------------------
(* Properties of the first tick *)

\* C27: the prune of the first tick after loading decides on the score the
\* load gave, the severity: it keeps every incident of severity 1 or more
\* whatever its age, so that such an incident leaves the active set no
\* earlier than the second tick; what it removes are the incidents an hour
\* old or more whose severity is from 0 to under 0.5.
C27_FirstTickOnSeverity ==
    ticks_done = 0 =>
        /\ pc # "load" =>
               \A j \in 1..Len(history_csv.rows) :
                   history_csv.rows[j].severity >= 1 =>
                       HasId(incidents, history_csv.rows[j].id)
        /\ pc = "inject" =>
               /\ incidents = load_base_data(history_csv, start_time)
               /\ \A i \in 1..Len(incidents) :
                      HasId(pruned_incidents, incidents[i].id)
                          <=> ~ (/\ 0 <= incidents[i].base_severity * 100
                                 /\ incidents[i].base_severity * 100 < 50
                                 /\ SecondsOf(current_time - incidents[i].timestamp)
                                        >= 3600)

\* the first tick has pruned and removed nothing: it kept a 25-hour-old
\* danger incident whose recomputed score will be under 0.5
C27_Witness ==
    /\ pc = "inject"
    /\ ticks_done = 0
    /\ \E i \in 1..Len(incidents) :
           /\ incidents[i].base_severity >= 1
           /\ SecondsOf(current_time - incidents[i].timestamp) >= 24 * 3600
           /\ UpdateOne(incidents[i], incidents, current_time, now).dynamic_risk_score < 50
           /\ HasId(pruned_incidents, incidents[i].id)
           /\ Len(pruned_incidents) = Len(incidents)


====
